---- MODULE Spec2Model ----
(***************************************************************************)
(* Model of the Windows filesystem driver src/filesystem/windows/          *)
(* SDL_sysfsops.c: SDL_SYS_FSenumerate, SDL_SYS_FSremove, SDL_SYS_FSrename,*)
(* SDL_SYS_FSmkdir, SDL_SYS_FSstat and FileTimeToSDLTime.                  *)
(*                                                                         *)
(* Every driver call is one action.  What the call did is kept in its log: *)
(* the buffers and handles it acquired and released, the native calls it   *)
(* made with their outcome, the callback invocations and the calls of the  *)
(* error reporter, in program order.                                       *)
(*                                                                         *)
(* Text is a sequence of character codes (46 is '.', 58 is ':', 92 is '\', *)
(* 42 is '*').  A 32-bit word is a sequence of 8 hexadecimal digits and a  *)
(* 64-bit word one of 16, most significant digit first, so that the 64-bit *)
(* arithmetic of the source keeps its width.                               *)
(***************************************************************************)
EXTENDS Integers, Sequences, FiniteSets, TLC

VARIABLES
    fs,      \* the directory tree the native calls act on (SpecFS)
    call,    \* the driver call: operation, arguments, what the OS and the callback answer
    result   \* what the call returned and did; NoResult while it has not run

vars == <<fs, call, result>>

(***************************************************************************)
(* Fixed-width unsigned arithmetic on hexadecimal digit sequences.         *)
(***************************************************************************)
RECURSIVE Zero(_)
Zero(n) == IF n = 0 THEN <<>> ELSE Append(Zero(n - 1), 0)

RECURSIVE AddFrom(_, _, _, _)
AddFrom(a, b, i, c) ==
    IF i = 0 THEN <<>>
    ELSE LET s == a[i] + b[i] + c
         IN  Append(AddFrom(a, b, i - 1, s \div 16), s % 16)

\* a + b modulo 2^64
Add64(a, b) == AddFrom(a, b, Len(a), 0)

RECURSIVE SubFrom(_, _, _, _)
SubFrom(a, b, i, br) ==
    IF i = 0 THEN <<>>
    ELSE LET d == a[i] - b[i] - br
         IN  IF d < 0 THEN Append(SubFrom(a, b, i - 1, 1), d + 16)
                      ELSE Append(SubFrom(a, b, i - 1, 0), d)

\* a - b modulo 2^64: the subtraction of two Uint64
Sub64(a, b) == SubFrom(a, b, Len(a), 0)

RECURSIVE MulSmallFrom(_, _, _, _)
MulSmallFrom(a, m, i, c) ==
    IF i = 0 THEN <<>>
    ELSE LET s == a[i] * m + c
         IN  Append(MulSmallFrom(a, m, i - 1, s \div 16), s % 16)

\* a * m modulo 2^64, for 0 <= m <= 16
MulSmall(a, m) == MulSmallFrom(a, m, Len(a), 0)

RECURSIVE DivFrom(_, _, _, _)
DivFrom(a, d, i, r) ==
    IF i > Len(a) THEN <<>>
    ELSE LET cur == r * 16 + a[i]
         IN  <<cur \div d>> \o DivFrom(a, d, i + 1, cur % d)

\* a / d on Uint64, for a divisor 0 < d < 2^27
DivSmall(a, d) == DivFrom(a, d, 1, 0)

\* a >= b on words of the same length
RECURSIVE GeqFrom(_, _, _)
GeqFrom(a, b, i) ==
    IF i > Len(a) THEN TRUE
    ELSE IF a[i] # b[i] THEN a[i] > b[i]
    ELSE GeqFrom(a, b, i + 1)

Geq64(a, b) == GeqFrom(a, b, 1)

\* the Uint64 written by a decimal literal (a sequence of decimal digits)
RECURSIVE FromDec(_)
FromDec(ds) ==
    IF ds = <<>> THEN Zero(16)
    ELSE Add64(MulSmall(FromDec(SubSeq(ds, 1, Len(ds) - 1)), 10),
               Zero(15) \o <<ds[Len(ds)]>>)

\* x & y and x | y on naturals
RECURSIVE BitAnd(_, _)
BitAnd(x, y) ==
    IF x = 0 \/ y = 0 THEN 0
    ELSE 2 * BitAnd(x \div 2, y \div 2) + (IF x % 2 = 1 /\ y % 2 = 1 THEN 1 ELSE 0)

RECURSIVE BitOr(_, _)
BitOr(x, y) ==
    IF x = 0 THEN y
    ELSE IF y = 0 THEN x
    ELSE 2 * BitOr(x \div 2, y \div 2) + (IF x % 2 = 1 \/ y % 2 = 1 THEN 1 ELSE 0)

\* 1 << n
RECURSIVE Shl1(_)
Shl1(n) == IF n = 0 THEN 1 ELSE 2 * Shl1(n - 1)

RECURSIVE OrFrom(_, _, _)
OrFrom(x, y, i) == IF i = 0 THEN <<>> ELSE Append(OrFrom(x, y, i - 1), BitOr(x[i], y[i]))

\* x | y on words of the same length, digit by digit
Or64(x, y) == OrFrom(x, y, Len(x))

\* x << 32 on a Uint64
Shl32(x) == SubSeq(x, 9, 16) \o Zero(8)

\* (Uint64) w for a 32-bit word w
ToUint64(w) == Zero(8) \o w

\* (Sint64) u: the two's complement reading of a Uint64, as sign and magnitude
ToSint64(u) ==
    IF u[1] >= 8 THEN [neg |-> TRUE, mag |-> Sub64(Zero(16), u)]
    ELSE [neg |-> FALSE, mag |-> u]

(***************************************************************************)
(* The log of a call.                                                      *)
(***************************************************************************)
Ev(ev, what, res, text, dir, ret) ==
    [ev |-> ev, what |-> what, res |-> res, text |-> text, dir |-> dir, ret |-> ret]

Alloc(what) == Ev("alloc", what, "ok", <<>>, "", 0)
Free(what) == Ev("free", what, "ok", <<>>, "", 0)
Native(what, res, text) == Ev("native", what, res, text, "", 0)
CbEv(dir, name, ret) == Ev("cb", "cb", "ok", name, dir, ret)
SetErrorEv(msg) == Ev("seterror", msg, "ok", <<>>, "", 0)

NoInfo == [type |-> "unset"]
NoResult == [retval |-> 0, log |-> <<>>, info |-> NoInfo, done |-> FALSE]
Ret(retval, log) == [retval |-> retval, log |-> log, info |-> NoInfo, done |-> TRUE]

\* WIN_SetError: records the OS error under the message and returns -1
WIN_SetError(log, msg) == Ret(-1, Append(log, SetErrorEv(msg)))

(***************************************************************************)
(* String conversion.  Code units below 128 are one byte; those below 2048 *)
(* are two bytes.                                                          *)
(***************************************************************************)
RECURSIVE WIN_StringToUTF8(_)
WIN_StringToUTF8(w) ==
    IF w = <<>> THEN <<>>
    ELSE (IF w[1] < 128 THEN <<w[1]>>
          ELSE <<192 + (w[1] \div 64), 128 + (w[1] % 64)>>) \o WIN_StringToUTF8(Tail(w))

RECURSIVE WIN_UTF8ToString(_)
WIN_UTF8ToString(s) ==
    IF s = <<>> THEN <<>>
    ELSE IF s[1] < 128 THEN <<s[1]>> \o WIN_UTF8ToString(Tail(s))
    ELSE <<(s[1] - 192) * 64 + (s[2] - 128)>> \o WIN_UTF8ToString(Tail(Tail(s)))

(***************************************************************************)
(* FileTimeToSDLTime                                                       *)
(***************************************************************************)
SDL_NS_PER_SECOND == 1000000000

\* 11644473600ull * 10000000ull = 116444736000000000 = 0x019DB1DED53E8000
delta_1601_epoch_100ns == <<0, 1, 9, 13, 11, 1, 13, 14, 13, 5, 3, 14, 8, 0, 0, 0>>

FileTimeToSDLTime(ft) ==
    LET large == ft.dwHighDateTime \o ft.dwLowDateTime
    IN  IF large = Zero(16) THEN ToSint64(Zero(16))
        ELSE ToSint64(DivSmall(Sub64(large, delta_1601_epoch_100ns),
                               SDL_NS_PER_SECOND \div 100))

(***************************************************************************)
(* SDL_SYS_FSstat                                                          *)
(***************************************************************************)
FILE_ATTRIBUTE_DIRECTORY == 16
FILE_ATTRIBUTE_DEVICE == 64
FILE_ATTRIBUTE_OFFLINE == 4096

FileSize(winstat) ==
    Or64(Shl32(ToUint64(winstat.nFileSizeHigh)), ToUint64(winstat.nFileSizeLow))

\* a slip: the offline and device bits are looked at before the directory bit
PathType_Mut(winstat) ==
    IF BitAnd(winstat.dwFileAttributes,
              BitOr(FILE_ATTRIBUTE_OFFLINE, FILE_ATTRIBUTE_DEVICE)) # 0
    THEN [type |-> "OTHER", size |-> FileSize(winstat)]
    ELSE IF BitAnd(winstat.dwFileAttributes, FILE_ATTRIBUTE_DIRECTORY) # 0
    THEN [type |-> "DIRECTORY", size |-> Zero(16)]
    ELSE [type |-> "FILE", size |-> FileSize(winstat)]

PathType(winstat) ==
    IF BitAnd(winstat.dwFileAttributes, FILE_ATTRIBUTE_DIRECTORY) # 0
    THEN [type |-> "DIRECTORY", size |-> Zero(16)]
    ELSE IF BitAnd(winstat.dwFileAttributes,
                   BitOr(FILE_ATTRIBUTE_OFFLINE, FILE_ATTRIBUTE_DEVICE)) # 0
    THEN [type |-> "OTHER", size |-> FileSize(winstat)]
    ELSE [type |-> "FILE", size |-> FileSize(winstat)]

StatInfo(winstat) ==
    LET ts == PathType(winstat)
    IN  [type |-> ts.type, size |-> ts.size,
         create_time |-> FileTimeToSDLTime(winstat.ftCreationTime),
         modify_time |-> FileTimeToSDLTime(winstat.ftLastWriteTime),
         access_time |-> FileTimeToSDLTime(winstat.ftLastAccessTime)]

\* env.convOk: WIN_UTF8ToString gives a buffer; env.attr: what GetFileAttributesExW answers
SDL_SYS_FSstat(fullpath, env) ==
    IF ~env.convOk THEN Ret(-1, <<>>)
    ELSE LET log == <<Alloc("wpath"),
                      Native("GetFileAttributesExW", env.attr.res, WIN_UTF8ToString(fullpath)),
                      Free("wpath")>>
         IN  IF env.attr.res # "ok" THEN WIN_SetError(log, "Can't stat")
             ELSE [retval |-> 1, log |-> log, info |-> StatInfo(env.attr), done |-> TRUE]

(***************************************************************************)
(* SDL_SYS_FSremove                                                        *)
(***************************************************************************)
\* a slip: the attributes are ignored and the path is always deleted as a file
RemoveCall_Mut(info) == "DeleteFileW"

\* the native call remove makes for the queried attributes
RemoveCall(info) ==
    IF BitAnd(info.dwFileAttributes, FILE_ATTRIBUTE_DIRECTORY) # 0
    THEN "RemoveDirectoryW" ELSE "DeleteFileW"

\* a slip: a missing ancestor is taken for a missing leaf
RemoveQueryFailed_Mut(log, code) ==
    IF code \in {"ERROR_FILE_NOT_FOUND", "ERROR_PATH_NOT_FOUND"} THEN Ret(0, log)
    ELSE WIN_SetError(log, "Couldn't get path's attributes")

\* what remove does when GetFileAttributesExW failed with the error `code`
RemoveQueryFailed(log, code) ==
    IF code = "ERROR_FILE_NOT_FOUND" THEN Ret(0, log)
    ELSE WIN_SetError(log, "Couldn't get path's attributes")

\* env.rmdir, env.del: what RemoveDirectoryW and DeleteFileW answer if called
SDL_SYS_FSremove(fullpath, env) ==
    IF ~env.convOk THEN Ret(-1, <<>>)
    ELSE LET wpath == WIN_UTF8ToString(fullpath)
             log1 == <<Alloc("wpath"), Native("GetFileAttributesExW", env.attr.res, wpath)>>
         IN  IF env.attr.res # "ok" THEN RemoveQueryFailed(log1, env.attr.res)
             ELSE LET fn == RemoveCall(env.attr)
                      rc == IF fn = "RemoveDirectoryW" THEN env.rmdir ELSE env.del
                      log2 == log1 \o <<Native(fn, rc, wpath), Free("wpath")>>
                  IN  IF rc # "ok" THEN WIN_SetError(log2, "Couldn't remove path")
                      ELSE Ret(0, log2)

(***************************************************************************)
(* SDL_SYS_FSrename                                                        *)
(***************************************************************************)
\* env.oldOk, env.newOk: the two conversions; env.move: what MoveFileExW answers
SDL_SYS_FSrename(oldfullpath, newfullpath, env) ==
    IF ~env.oldOk THEN Ret(-1, <<>>)
    ELSE IF ~env.newOk THEN Ret(-1, <<Alloc("woldpath"), Free("woldpath")>>)
    ELSE LET log == <<Alloc("woldpath"), Alloc("wnewpath"),
                      Native("MoveFileExW", env.move,
                             WIN_UTF8ToString(oldfullpath) \o <<0>> \o WIN_UTF8ToString(newfullpath)),
                      Free("wnewpath"), Free("woldpath")>>
         IN  IF env.move # "ok" THEN WIN_SetError(log, "Couldn't rename path")
             ELSE Ret(0, log)

(***************************************************************************)
(* SDL_SYS_FSmkdir                                                         *)
(***************************************************************************)
\* a slip: a failing CreateDirectoryW is answered with -1, the error reporter not called
SDL_SYS_FSmkdir_Mut(fullpath, env) ==
    IF ~env.convOk THEN Ret(-1, <<>>)
    ELSE LET log == <<Alloc("wpath"),
                      Native("CreateDirectoryW", env.create, WIN_UTF8ToString(fullpath)),
                      Free("wpath")>>
         IN  IF env.create # "ok" THEN Ret(-1, log) ELSE Ret(0, log)

\* env.convOk: the conversion; env.create: what CreateDirectoryW answers
SDL_SYS_FSmkdir(fullpath, env) ==
    IF ~env.convOk THEN Ret(-1, <<>>)
    ELSE LET log == <<Alloc("wpath"),
                      Native("CreateDirectoryW", env.create, WIN_UTF8ToString(fullpath)),
                      Free("wpath")>>
         IN  IF env.create # "ok" THEN WIN_SetError(log, "Couldn't create directory")
             ELSE Ret(0, log)

(***************************************************************************)
(* SDL_SYS_FSenumerate                                                     *)
(***************************************************************************)
\* the caller's callback: its n-th invocation returns cb.stopVal if n = cb.stopAt, else 1
Callback(cb, n) == IF n = cb.stopAt THEN cb.stopVal ELSE 1

\* fn[k] of a NUL-terminated string, k counted from 0
CharAt(fn, k) == IF k < Len(fn) THEN fn[k + 1] ELSE 0

\* a slip: every name that begins with a dot is skipped
IsDotOrDotDot_Mut(fn) == CharAt(fn, 0) = 46

\* the entries the directory loop skips: "." and ".."
IsDotOrDotDot(fn) ==
    /\ CharAt(fn, 0) = 46
    /\ \/ CharAt(fn, 1) = 0
       \/ (CharAt(fn, 1) = 46 /\ CharAt(fn, 2) = 0)

\* a slip: only the answer 0 stops the loops
LoopContinues_Mut(retval) == retval # 0

\* the part of both loop conditions that looks at the callback's answer
LoopContinues(retval) == retval = 1

\* the name the drive loop builds for the letter i
DriveName(i) == <<i, 58>>

\* a slip: the bit tested is one too low, (1 << (i - 'B'))
DrivePresent_Mut(drives, i) == i > 65 /\ BitAnd(drives, Shl1(i - 66)) # 0

\* the drive loop's test of the letter i against the mask
DrivePresent(drives, i) == BitAnd(drives, Shl1(i - 65)) # 0

\* a slip: retval starts as the success value
InitialRetval_Mut == 1 - 1

\* int retval = 1;
InitialRetval == 1

\* for (i = 'A'; (retval == 1) && (i <= 'Z'); i++)
RECURSIVE DriveLoop(_, _, _, _, _)
DriveLoop(i, st, dirname, cb, drives) ==
    IF LoopContinues(st.retval) /\ i <= 90
    THEN IF DrivePresent(drives, i)
         THEN LET r == Callback(cb, st.ncb + 1)
              IN  DriveLoop(i + 1,
                            [st EXCEPT !.retval = r,
                                       !.log = Append(@, CbEv(dirname, DriveName(i), r)),
                                       !.ncb = @ + 1],
                            dirname, cb, drives)
         ELSE DriveLoop(i + 1, st, dirname, cb, drives)
    ELSE st

\* the body of the do-while loop for the entry env.entries[st.i]
EntryBody(st, dirname, cb, env) ==
    LET fn == env.entries[st.i]
    IN  IF IsDotOrDotDot(fn) THEN st
        ELSE IF env.utf8FailAt = st.nconv + 1
        THEN [st EXCEPT !.retval = -1, !.nconv = @ + 1]
        ELSE LET r == Callback(cb, st.ncb + 1)
             IN  [st EXCEPT !.retval = r,
                            !.log = @ \o <<Alloc("utf8fn"),
                                           CbEv(dirname, WIN_StringToUTF8(fn), r),
                                           Free("utf8fn")>>,
                            !.ncb = @ + 1,
                            !.nconv = @ + 1]

\* do { ... } while ((retval == 1) && (FindNextFileW(dir, &entw) != 0));
RECURSIVE DirLoop(_, _, _, _)
DirLoop(st, dirname, cb, env) ==
    LET b == EntryBody(st, dirname, cb, env)
    IN  IF LoopContinues(b.retval)
        THEN IF b.i < Len(env.entries)
             THEN DirLoop([b EXCEPT !.i = @ + 1,
                                    !.log = Append(@, Native("FindNextFileW", "ok", <<>>))],
                          dirname, cb, env)
             ELSE [b EXCEPT !.log = Append(@, Native("FindNextFileW", env.endRes, <<>>))]
        ELSE b

\* env.drives: what GetLogicalDrives answers; env.mallocOk, env.convOk: the pattern buffer and
\* its conversion; env.find: what FindFirstFileExW answers; env.entries: the entries the search
\* yields, in order; env.utf8FailAt: which WIN_StringToUTF8 call fails (0: none);
\* env.endRes: the error with which FindNextFileW fails after the last entry
SDL_SYS_FSenumerate(fullpath, dirname, cb, env) ==
    LET st0 == [i |-> 1, retval |-> InitialRetval, log |-> <<>>, ncb |-> 0, nconv |-> 0]
    IN  IF fullpath = <<>>
        THEN LET st == DriveLoop(65, [st0 EXCEPT !.log = <<Native("GetLogicalDrives", "ok", <<>>)>>],
                                 dirname, cb, env.drives)
             IN  Ret(st.retval, st.log)
        ELSE IF ~env.mallocOk THEN Ret(-1, <<>>)
        ELSE IF ~env.convOk THEN Ret(-1, <<Alloc("pattern"), Free("pattern")>>)
        ELSE LET pattern == fullpath \o <<92, 42>>
                 log1 == <<Alloc("pattern"), Alloc("wpattern"), Free("pattern"),
                           Native("FindFirstFileExW", env.find, WIN_UTF8ToString(pattern)),
                           Free("wpattern")>>
             IN  IF env.find # "ok" THEN WIN_SetError(log1, "Failed to enumerate directory")
                 ELSE LET st == DirLoop([st0 EXCEPT !.log = Append(log1, Alloc("dir"))],
                                        dirname, cb, env)
                      IN  Ret(st.retval, Append(st.log, Free("dir")))

(***************************************************************************)
(* The calls of the specification Spec: one driver call, with every answer *)
(* the OS, the allocator and the callback can give it.                     *)
(***************************************************************************)
MaxEntries == 5

Range(f) == {f[i] : i \in DOMAIN f}

\* ".", "..", ".a", "..a", "...", "a" and a name outside ASCII (U+00E9)
EntryNames == {<<46>>, <<46, 46>>, <<46, 97>>, <<46, 46, 97>>, <<46, 46, 46>>, <<97>>, <<233>>}

\* the sequences of at most n distinct elements of S
RECURSIVE InjSeqs(_, _)
InjSeqs(S, n) ==
    IF n = 0 THEN {<<>>}
    ELSE LET prev == InjSeqs(S, n - 1)
         IN  prev \cup {Append(q, x) : <<q, x>> \in
                           {qx \in prev \X S : Len(qx[1]) = n - 1 /\ qx[2] \notin Range(qx[1])}}

Listings == InjSeqs(EntryNames, MaxEntries) \ {<<>>}

\* the entries of a listing that are not "." or ".."
Deliverable(entries) == SelectSeq(entries, LAMBDA fn : fn \notin {<<46>>, <<46, 46>>})

NoCb == [stopAt |-> 0, stopVal |-> 1]

\* how an enumeration of a listing can go: to the end, or to the k-th deliverable entry,
\* where the callback answers something else than 1 or the conversion fails
Scripts(n) ==
    {[cb |-> NoCb, utf8FailAt |-> 0, endRes |-> e] :
        e \in {"ERROR_NO_MORE_FILES", "ERROR_ACCESS_DENIED"}}
    \cup {[cb |-> [stopAt |-> k, stopVal |-> r], utf8FailAt |-> 0, endRes |-> "ERROR_NO_MORE_FILES"] :
            k \in 1..n, r \in {0, -2, 2}}
    \cup {[cb |-> NoCb, utf8FailAt |-> k, endRes |-> "ERROR_NO_MORE_FILES"] : k \in 1..n}

EnumEnv(drives, mallocOk, convOk, find, entries, utf8FailAt, endRes) ==
    [drives |-> drives, mallocOk |-> mallocOk, convOk |-> convOk, find |-> find,
     entries |-> entries, utf8FailAt |-> utf8FailAt, endRes |-> endRes]

EnumCall(fullpath, cb, env) ==
    [op |-> "enumerate", fullpath |-> fullpath, dirname |-> "logical", cb |-> cb, env |-> env]

\* the drive masks: every choice among the bits of A, B, C, Y, Z and of two bits above Z
DriveBits == {0, 1, 2, 24, 25, 26, 30}

RECURSIVE SumBits(_)
SumBits(B) == IF B = {} THEN 0 ELSE LET b == CHOOSE x \in B : TRUE IN Shl1(b) + SumBits(B \ {b})

DriveMasks == {SumBits(B) : B \in SUBSET DriveBits}

RootCalls ==
    {EnumCall(<<>>, cb, EnumEnv(m, TRUE, TRUE, "ok", <<>>, 0, "ERROR_NO_MORE_FILES")) :
        m \in DriveMasks,
        cb \in {NoCb} \cup {[stopAt |-> k, stopVal |-> r] : k \in 1..3, r \in {0, -2, 2}}}

DirFailCalls ==
    {EnumCall(<<100>>, NoCb, EnumEnv(0, m, c, f, <<>>, 0, "ERROR_NO_MORE_FILES")) :
        <<m, c, f>> \in {<<FALSE, TRUE, "ok">>, <<TRUE, FALSE, "ok">>,
                         <<TRUE, TRUE, "ERROR_PATH_NOT_FOUND">>}}

DirCalls ==
    {EnumCall(<<100>>, es[2].cb,
              EnumEnv(0, TRUE, TRUE, "ok", es[1], es[2].utf8FailAt, es[2].endRes)) :
        es \in UNION {{e} \X Scripts(Len(Deliverable(e))) : e \in Listings}}

\* the words and the timestamps stat is given
Word0 == Zero(8)
Word1 == Zero(7) \o <<1>>
WordMax == <<15, 15, 15, 15, 15, 15, 15, 15>>
WordTop == <<8>> \o Zero(7)

FileTime(u) == [dwHighDateTime |-> SubSeq(u, 1, 8), dwLowDateTime |-> SubSeq(u, 9, 16)]

\* 0; 1; one second before 1970; 1970; 2022-06-21; the largest value
FileTimes ==
    {FileTime(Zero(16)), FileTime(Zero(15) \o <<1>>),
     FileTime(FromDec(<<1, 1, 6, 4, 4, 4, 7, 3, 5, 9, 9, 0, 0, 0, 0, 0, 0, 0>>)),
     FileTime(FromDec(<<1, 1, 6, 4, 4, 4, 7, 3, 6, 0, 0, 0, 0, 0, 0, 0, 0, 0>>)),
     FileTime(FromDec(<<1, 3, 3, 0, 0, 0, 0, 0, 0, 0, 1, 2, 3, 4, 5, 6, 7, 8>>)),
     FileTime(WordMax \o WordMax)}

AttrRec(res, attrs, hi, lo, tc, tw, ta) ==
    [res |-> res, dwFileAttributes |-> attrs, nFileSizeHigh |-> hi, nFileSizeLow |-> lo,
     ftCreationTime |-> tc, ftLastWriteTime |-> tw, ftLastAccessTime |-> ta]

\* every choice among READONLY (1), DIRECTORY, DEVICE and OFFLINE
AttrValues == {a + d + v + o : a \in {0, 1}, d \in {0, FILE_ATTRIBUTE_DIRECTORY},
                               v \in {0, FILE_ATTRIBUTE_DEVICE}, o \in {0, FILE_ATTRIBUTE_OFFLINE}}

PlainAttr(res, attrs) ==
    AttrRec(res, attrs, Word0, Word1, FileTime(Zero(16)), FileTime(Zero(16)), FileTime(Zero(16)))

QueryErrors == {"ERROR_FILE_NOT_FOUND", "ERROR_PATH_NOT_FOUND", "ERROR_ACCESS_DENIED"}

StatCalls ==
    {[op |-> "stat", fullpath |-> <<97>>, env |-> [convOk |-> FALSE, attr |-> PlainAttr("ok", 0)]]}
    \cup {[op |-> "stat", fullpath |-> <<97>>, env |-> [convOk |-> TRUE, attr |-> PlainAttr(e, 0)]] :
            e \in QueryErrors}
    \cup {[op |-> "stat", fullpath |-> <<97>>,
           env |-> [convOk |-> TRUE, attr |-> AttrRec("ok", a, hi, lo, tc, tw, ta)]] :
            a \in AttrValues, hi \in {Word0, Word1, WordMax}, lo \in {Word0, WordTop, WordMax},
            tc \in FileTimes, tw \in FileTimes, ta \in FileTimes}

RemoveCalls ==
    {[op |-> "remove", fullpath |-> <<97>>,
      env |-> [convOk |-> c, attr |-> PlainAttr(e, a), rmdir |-> rd, del |-> dl]] :
        c \in BOOLEAN, e \in {"ok"} \cup QueryErrors, a \in AttrValues,
        rd \in {"ok", "ERROR_DIR_NOT_EMPTY"}, dl \in {"ok", "ERROR_ACCESS_DENIED"}}

RenameCalls ==
    {[op |-> "rename", fullpath |-> <<97>>, newfullpath |-> <<195, 169>>,
      env |-> [oldOk |-> o, newOk |-> n, move |-> m]] :
        o \in BOOLEAN, n \in BOOLEAN, m \in {"ok", "ERROR_FILE_NOT_FOUND", "ERROR_ACCESS_DENIED"}}

MkdirCalls ==
    {[op |-> "mkdir", fullpath |-> <<97>>, env |-> [convOk |-> c, create |-> m]] :
        c \in BOOLEAN, m \in {"ok", "ERROR_ALREADY_EXISTS", "ERROR_PATH_NOT_FOUND"}}

NoFs == <<>>
NoCall == [op |-> "none"]

\* the driver keeps nothing from one call to the next: a behaviour is one call
Idle == ~result.done

Init ==
    /\ fs = NoFs
    /\ call = NoCall
    /\ result = NoResult

Enumerate ==
    /\ Idle
    /\ \E c \in RootCalls \cup DirFailCalls \cup DirCalls :
          /\ call' = c
          /\ result' = SDL_SYS_FSenumerate(c.fullpath, c.dirname, c.cb, c.env)
    /\ UNCHANGED fs

Remove ==
    /\ Idle
    /\ \E c \in RemoveCalls :
          /\ call' = c
          /\ result' = SDL_SYS_FSremove(c.fullpath, c.env)
    /\ UNCHANGED fs

Rename ==
    /\ Idle
    /\ \E c \in RenameCalls :
          /\ call' = c
          /\ result' = SDL_SYS_FSrename(c.fullpath, c.newfullpath, c.env)
    /\ UNCHANGED fs

Mkdir ==
    /\ Idle
    /\ \E c \in MkdirCalls :
          /\ call' = c
          /\ result' = SDL_SYS_FSmkdir(c.fullpath, c.env)
    /\ UNCHANGED fs

Stat ==
    /\ Idle
    /\ \E c \in StatCalls :
          /\ call' = c
          /\ result' = SDL_SYS_FSstat(c.fullpath, c.env)
    /\ UNCHANGED fs

Next == Enumerate \/ Remove \/ Rename \/ Mkdir \/ Stat

Spec == Init /\ [][Next]_vars

(***************************************************************************)
(* The specification SpecFS: calls that follow one another on one          *)
(* directory tree.  The tree is the working directory, named ".", with the *)
(* entries "a", "b", ... and, inside those that are directories, the entry *)
(* "x".  The native calls answer from the tree as Windows does; string     *)
(* conversions and allocations succeed.                                    *)
(***************************************************************************)
MaxNames == 3

TopNames == {<<96 + i>> : i \in 1..MaxNames}
ChildName == <<120>>

\* the nodes of the tree, as sequences of names
FsNodes == {<<n>> : n \in TopNames} \cup {<<n, ChildName>> : n \in TopNames}

ValidFS ==
    {f \in [FsNodes -> {"none", "file", "dir"}] :
        \A n \in TopNames : f[<<n, ChildName>>] # "none" => f[<<n>>] = "dir"}

\* the path of a node, its names joined by '\'
RECURSIVE Join(_)
Join(node) ==
    IF Len(node) = 1 THEN node[1] ELSE node[1] \o <<92>> \o Join(Tail(node))

\* the paths the calls are given: those of the nodes and "?", not a name
FsFullPaths == {Join(node) : node \in FsNodes} \cup {<<63>>}

\* the names of a native path
RECURSIVE Split(_)
Split(w) ==
    IF w = <<>> THEN <<<<>>>>
    ELSE LET r == Split(Tail(w))
         IN  IF w[1] = 92 THEN <<<<>>>> \o r
             ELSE <<<<w[1]>> \o r[1]>> \o Tail(r)

InvalidName(w) == \E i \in 1..Len(w) : w[i] \in {63, 42}

Kind(f, node) ==
    IF node = <<<<46>>>> THEN "dir"
    ELSE IF node \in DOMAIN f THEN f[node]
    ELSE "none"

\* the directory a node lies in is there
ParentIsDir(f, node) ==
    IF Len(node) = 1 THEN TRUE ELSE Kind(f, SubSeq(node, 1, Len(node) - 1)) = "dir"

HasChildren(f, node) == \E c \in DOMAIN f : Len(c) = Len(node) + 1 /\ SubSeq(c, 1, Len(node)) = node /\ f[c] # "none"

\* GetFileAttributesExW: 'path not found' when a directory on the way is missing,
\* 'file not found' when only the last name is
GetFileAttributesExW(f, w) ==
    LET node == Split(w)
    IN  IF InvalidName(w) THEN PlainAttr("ERROR_INVALID_NAME", 0)
        ELSE IF ~ParentIsDir(f, node) THEN PlainAttr("ERROR_PATH_NOT_FOUND", 0)
        ELSE IF Kind(f, node) = "none" THEN PlainAttr("ERROR_FILE_NOT_FOUND", 0)
        ELSE IF Kind(f, node) = "dir" THEN PlainAttr("ok", FILE_ATTRIBUTE_DIRECTORY)
        ELSE PlainAttr("ok", 32)

\* RemoveDirectoryW removes a directory that has no entries
RemoveDirectoryW(f, w) ==
    LET node == Split(w)
    IN  IF InvalidName(w) THEN "ERROR_INVALID_NAME"
        ELSE IF ~ParentIsDir(f, node) THEN "ERROR_PATH_NOT_FOUND"
        ELSE IF Kind(f, node) = "none" THEN "ERROR_FILE_NOT_FOUND"
        ELSE IF Kind(f, node) = "file" THEN "ERROR_DIRECTORY"
        ELSE IF HasChildren(f, node) THEN "ERROR_DIR_NOT_EMPTY"
        ELSE "ok"

\* DeleteFileW removes a file
DeleteFileW(f, w) ==
    LET node == Split(w)
    IN  IF InvalidName(w) THEN "ERROR_INVALID_NAME"
        ELSE IF ~ParentIsDir(f, node) THEN "ERROR_PATH_NOT_FOUND"
        ELSE IF Kind(f, node) = "none" THEN "ERROR_FILE_NOT_FOUND"
        ELSE IF Kind(f, node) = "dir" THEN "ERROR_ACCESS_DENIED"
        ELSE "ok"

\* CreateDirectoryW makes one directory in a directory that is there
CreateDirectoryW(f, w) ==
    LET node == Split(w)
    IN  IF InvalidName(w) THEN "ERROR_INVALID_NAME"
        ELSE IF ~ParentIsDir(f, node) THEN "ERROR_PATH_NOT_FOUND"
        ELSE IF Kind(f, node) # "none" THEN "ERROR_ALREADY_EXISTS"
        ELSE "ok"

\* the entries of the directory `node`, in the order of their names
RECURSIVE TopEntries(_, _)
TopEntries(f, i) ==
    IF i > MaxNames THEN <<>>
    ELSE (IF f[<<<<96 + i>>>>] # "none" THEN <<<<96 + i>>>> ELSE <<>>) \o TopEntries(f, i + 1)

EntriesOf(f, node) ==
    IF node = <<<<46>>>> THEN TopEntries(f, 1)
    ELSE IF f[node \o <<ChildName>>] # "none" THEN <<ChildName>> ELSE <<>>

\* FindFirstFileExW and FindNextFileW on the pattern "dir\*": ".", "..", the entries
FindFiles(f, fullpath) ==
    LET node == Split(WIN_UTF8ToString(fullpath))
    IN  IF Kind(f, node) = "dir" /\ (node = <<<<46>>>> \/ Len(node) = 1)
        THEN EnumEnv(0, TRUE, TRUE, "ok", <<<<46>>, <<46, 46>>>> \o EntriesOf(f, node),
                     0, "ERROR_NO_MORE_FILES")
        ELSE EnumEnv(0, TRUE, TRUE,
                     IF Kind(f, node) = "file" THEN "ERROR_DIRECTORY" ELSE "ERROR_PATH_NOT_FOUND",
                     <<>>, 0, "ERROR_NO_MORE_FILES")

\* the tree after the native calls of a log that succeeded
RECURSIVE ApplyLog(_, _)
ApplyLog(f, log) ==
    IF log = <<>> THEN f
    ELSE LET e == log[1]
             g == IF e.ev = "native" /\ e.res = "ok"
                  THEN IF e.what \in {"RemoveDirectoryW", "DeleteFileW"}
                       THEN [f EXCEPT ![Split(e.text)] = "none"]
                       ELSE IF e.what = "CreateDirectoryW"
                       THEN [f EXCEPT ![Split(e.text)] = "dir"]
                       ELSE f
                  ELSE f
         IN  ApplyLog(g, Tail(log))

\* the call follows a remove of the same path that returned 0
Again(p) == call.op = "remove" /\ call.fullpath = p /\ result.retval = 0

FsCall(op, p, again) == [op |-> op, fullpath |-> p, again |-> again]

InitFS ==
    /\ fs \in ValidFS
    /\ call = NoCall
    /\ result = NoResult

FsRemove ==
    \E p \in FsFullPaths :
        LET w == WIN_UTF8ToString(p)
            r == SDL_SYS_FSremove(p, [convOk |-> TRUE,
                                      attr |-> GetFileAttributesExW(fs, w),
                                      rmdir |-> RemoveDirectoryW(fs, w),
                                      del |-> DeleteFileW(fs, w)])
        IN  /\ call' = FsCall("remove", p, Again(p))
            /\ result' = r
            /\ fs' = ApplyLog(fs, r.log)

FsMkdir ==
    \E p \in FsFullPaths :
        LET r == SDL_SYS_FSmkdir(p, [convOk |-> TRUE,
                                     create |-> CreateDirectoryW(fs, WIN_UTF8ToString(p))])
        IN  /\ call' = FsCall("mkdir", p, FALSE)
            /\ result' = r
            /\ fs' = ApplyLog(fs, r.log)

FsEnumerate ==
    \E p \in {<<46>>} \cup TopNames :
        LET r == SDL_SYS_FSenumerate(p, "logical", NoCb, FindFiles(fs, p))
        IN  /\ call' = FsCall("enumerate", p, FALSE)
            /\ result' = r
            /\ fs' = ApplyLog(fs, r.log)

NextFS == FsRemove \/ FsMkdir \/ FsEnumerate

SpecFS == InitFS /\ [][NextFS]_vars

(***************************************************************************)
(* What the properties read off a finished call.                           *)
(***************************************************************************)
Done(op) == result.done /\ call.op = op

Events(kind) == SelectSeq(result.log, LAMBDA e : e.ev = kind)
NativeCalls(what) == SelectSeq(result.log, LAMBDA e : e.ev = "native" /\ e.what = what)

\* the names the callback was given, in the order of the invocations
Delivered == [i \in 1..Len(Events("cb")) |-> Events("cb")[i].text]

\* the enumeration of a real directory whose search was opened
DirEnumerated ==
    /\ Done("enumerate")
    /\ call.fullpath # <<>>
    /\ call.env.mallocOk /\ call.env.convOk /\ call.env.find = "ok"

\* the deliverable entries met before the callback answers something else than 1
UntilStop ==
    LET d == Deliverable(call.env.entries)
    IN  IF call.cb.stopAt \in 1..Len(d) THEN SubSeq(d, 1, call.cb.stopAt) ELSE d

\* the same, cut before the entry whose conversion to UTF-8 fails
UntilStopOrFailure ==
    IF call.env.utf8FailAt \in 1..Len(UntilStop)
    THEN SubSeq(UntilStop, 1, call.env.utf8FailAt - 1) ELSE UntilStop

UTF8Names(names) == [i \in 1..Len(names) |-> WIN_StringToUTF8(names[i])]

\* bit k of the natural m
Bit(m, k) == (m \div Shl1(k)) % 2 = 1

----------------------------------------------------------------------------
\* C1: in both branches of enumerate, once a callback invocation returns r # 1 there is
\* no further callback invocation and no further native call, and enumerate returns r;
\* a callback returning 0 on the third of five deliverable entries is invoked three
\* times and enumerate returns 0.
C1_StopsAtFirstNonContinue ==
    Done("enumerate") =>
        /\ \A i \in 1..Len(result.log) :
              (result.log[i].ev = "cb" /\ result.log[i].ret # 1) =>
                  /\ \A j \in (i + 1)..Len(result.log) : result.log[j].ev \notin {"cb", "native"}
                  /\ result.retval = result.log[i].ret
        /\ (DirEnumerated /\ call.cb = [stopAt |-> 3, stopVal |-> 0]
              /\ call.env.utf8FailAt = 0 /\ Len(Deliverable(call.env.entries)) = 5) =>
                  (Len(Events("cb")) = 3 /\ result.retval = 0)

C1_Witness ==
    /\ DirEnumerated
    /\ call.cb = [stopAt |-> 3, stopVal |-> 0]
    /\ Len(Deliverable(call.env.entries)) = 5
    /\ Len(Events("cb")) = 3
    /\ result.retval = 0

----------------------------------------------------------------------------
\* C4 as claimed: enumerating a real directory never delivers "." or "..", and every
\* other entry reached while the callback keeps returning 1 is delivered exactly once,
\* in native order, with the logical directory name passed through.
C4_AsClaimed ==
    DirEnumerated =>
        /\ Delivered = UTF8Names(UntilStop)
        /\ \A i \in 1..Len(Events("cb")) : Events("cb")[i].dir = call.dirname

\* C4 as amended: the same, for the entries whose conversion to UTF-8 succeeds; the
\* entry whose conversion fails is not delivered, nothing is delivered after it and
\* enumerate returns -1.
C4_OnlyDotEntriesSuppressed ==
    DirEnumerated =>
        /\ Delivered = UTF8Names(UntilStopOrFailure)
        /\ \A i \in 1..Len(Events("cb")) :
              /\ Events("cb")[i].dir = call.dirname
              /\ Events("cb")[i].text \notin {<<46>>, <<46, 46>>}
        /\ call.env.utf8FailAt \in 1..Len(UntilStop) => result.retval = -1

C4_Witness ==
    /\ DirEnumerated
    /\ Len(call.env.entries) = 5
    /\ call.env.entries[1] = <<46, 97>>
    /\ call.env.entries[3] = <<46>>
    /\ call.env.entries[5] = <<46, 46>>
    /\ call.env.utf8FailAt = 3
    /\ Len(Delivered) = 2
    /\ Delivered[1] = <<46, 97>>

----------------------------------------------------------------------------
EnumFailed ==
    IF call.fullpath = <<>> THEN FALSE
    ELSE \/ ~call.env.mallocOk \/ ~call.env.convOk \/ call.env.find # "ok"
         \/ call.env.utf8FailAt \in 1..Len(UntilStop)

EnumStopped == \E i \in 1..Len(Events("cb")) : Events("cb")[i].ret # 1

----------------------------------------------------------------------------
\* the words of C6, computed by arithmetic: high * 2^32 + low
RECURSIVE Times16(_, _)
Times16(x, n) == IF n = 0 THEN x ELSE Times16(MulSmall(x, 16), n - 1)

HighLow(high, low) == Add64(Times16(Zero(8) \o high, 8), Zero(8) \o low)

\* C6: when the attribute query succeeds, stat reports DIRECTORY with size 0 if the
\* directory bit (bit 4) is set, else OTHER if the offline (bit 12) or device (bit 6)
\* bit is set, else FILE; for OTHER and FILE the size is sizeHigh * 2^32 + sizeLow;
\* and stat returns 1.
C6_StatClassifies ==
    (Done("stat") /\ call.env.convOk /\ call.env.attr.res = "ok") =>
        LET a == call.env.attr
            size == HighLow(a.nFileSizeHigh, a.nFileSizeLow)
        IN  /\ result.retval = 1
            /\ IF Bit(a.dwFileAttributes, 4)
               THEN result.info.type = "DIRECTORY" /\ result.info.size = Zero(16)
               ELSE IF Bit(a.dwFileAttributes, 12) \/ Bit(a.dwFileAttributes, 6)
               THEN result.info.type = "OTHER" /\ result.info.size = size
               ELSE result.info.type = "FILE" /\ result.info.size = size

C6_Witness ==
    /\ Done("stat")
    /\ call.env.attr.dwFileAttributes = FILE_ATTRIBUTE_DIRECTORY + FILE_ATTRIBUTE_OFFLINE
    /\ call.env.attr.nFileSizeHigh = WordMax
    /\ result.info.type = "DIRECTORY"
    /\ result.info.size = Zero(16)
    /\ result.retval = 1

----------------------------------------------------------------------------
\* the signed whole seconds between 1970 and the timestamp t: (t - delta) / 10000000
EpochSeconds(t) ==
    IF t = Zero(16) THEN [neg |-> FALSE, mag |-> Zero(16)]
    ELSE IF Geq64(t, delta_1601_epoch_100ns)
    THEN [neg |-> FALSE, mag |-> DivSmall(Sub64(t, delta_1601_epoch_100ns), 10000000)]
    ELSE LET m == DivSmall(Sub64(delta_1601_epoch_100ns, t), 10000000)
         IN  [neg |-> m # Zero(16), mag |-> m]

Quad(ft) == ft.dwHighDateTime \o ft.dwLowDateTime

\* C7: each of the three times stat reports is 0 for the timestamp 0 and otherwise the
\* signed number of whole seconds (t - 116444736000000000) / 10000000, also for the
\* timestamps before 1970.
C7_EpochSeconds ==
    (Done("stat") /\ result.retval = 1) =>
        /\ result.info.create_time = EpochSeconds(Quad(call.env.attr.ftCreationTime))
        /\ result.info.modify_time = EpochSeconds(Quad(call.env.attr.ftLastWriteTime))
        /\ result.info.access_time = EpochSeconds(Quad(call.env.attr.ftLastAccessTime))

----------------------------------------------------------------------------
\* what a call still holds after the events of log, or "bad" if it acquires what it
\* holds or releases what it does not hold
RECURSIVE Held(_)
Held(log) ==
    IF log = <<>> THEN {}
    ELSE LET h == Held(SubSeq(log, 1, Len(log) - 1))
             e == log[Len(log)]
         IN  IF h = {"bad"} THEN h
             ELSE IF e.ev = "alloc" THEN (IF e.what \in h THEN {"bad"} ELSE h \cup {e.what})
             ELSE IF e.ev = "free" THEN (IF e.what \in h THEN h \ {e.what} ELSE {"bad"})
             ELSE h

\* C3: on every exit path of the five operations every buffer and handle acquired
\* during the call has been released exactly once when the call returns.
C3_AllReleased == result.done => Held(result.log) = {}

----------------------------------------------------------------------------
Failing(e) == e.ev = "native" /\ e.res \notin {"ok", "ERROR_NO_MORE_FILES"}

ConversionFailed ==
    \/ call.op \in {"remove", "mkdir", "stat"} /\ ~call.env.convOk
    \/ call.op = "rename" /\ (~call.env.oldOk \/ ~call.env.newOk)
    \/ call.op = "enumerate" /\ EnumFailed /\ call.env.find = "ok"

Reported(e) ==
    /\ Failing(e)
    /\ e.what # "FindNextFileW"
    /\ ~(call.op = "remove" /\ e.what = "GetFileAttributesExW" /\ e.res = "ERROR_FILE_NOT_FOUND")

----------------------------------------------------------------------------
\* the names of the drives of a mask: the letter of each set bit 0..25, then ':'
RECURSIVE DriveNames(_, _)
DriveNames(mask, i) ==
    IF i > 25 THEN <<>>
    ELSE (IF Bit(mask, i) THEN <<<<65 + i, 58>>>> ELSE <<>>) \o DriveNames(mask, i + 1)

\* C9: enumerate with an empty path and a callback that always returns 1 invokes the
\* callback once per set bit 0..25 of the drive mask, with the letter of the bit and
\* ':', in ascending order, for no other bit, and opens no directory search.
C9_DriveLetters ==
    (Done("enumerate") /\ call.fullpath = <<>> /\ call.cb = NoCb) =>
        /\ Delivered = DriveNames(call.env.drives, 0)
        /\ \A i \in 1..Len(Events("cb")) : Events("cb")[i].dir = call.dirname
        /\ Len(NativeCalls("FindFirstFileExW")) = 0
        /\ Len(NativeCalls("FindNextFileW")) = 0
        /\ Len(Events("alloc")) = 0

C9_Witness ==
    /\ Done("enumerate")
    /\ call.fullpath = <<>>
    /\ call.cb = NoCb
    /\ call.env.drives = Shl1(0) + Shl1(2) + Shl1(25) + Shl1(26) + Shl1(30)
    /\ Delivered = <<<<65, 58>>, <<67, 58>>, <<90, 58>>>>

----------------------------------------------------------------------------
Deletions == NativeCalls("RemoveDirectoryW") \o NativeCalls("DeleteFileW")

\* C2: remove returns 0 and makes no delete call when the attribute query fails with
\* 'file not found'; it returns a failure, the OS error reported, when the query fails
\* with another code such as 'path not found'; a remove that follows a remove of the
\* same path that returned 0 returns 0.
C2_RemoveOfMissingPath ==
    Done("remove") =>
        LET q == NativeCalls("GetFileAttributesExW")[1].res
        IN  /\ q = "ERROR_FILE_NOT_FOUND" => (result.retval = 0 /\ Deletions = <<>>)
            /\ q \notin {"ok", "ERROR_FILE_NOT_FOUND"} =>
                  (result.retval < 0 /\ Len(Events("seterror")) = 1 /\ Deletions = <<>>)
            /\ ~ParentIsDir(fs, Split(call.fullpath)) => q = "ERROR_PATH_NOT_FOUND"
            /\ call.again => (result.retval = 0 /\ Deletions = <<>>)

C2_Witness ==
    /\ Done("remove")
    /\ call.again
    /\ NativeCalls("GetFileAttributesExW")[1].res = "ERROR_FILE_NOT_FOUND"
    /\ result.retval = 0

----------------------------------------------------------------------------
\* the names enumerate delivers for the directory of the node in the tree f
DeliveredIn(f, node) ==
    LET dir == IF Len(node) = 1 THEN <<46>> ELSE node[1]
        r == SDL_SYS_FSenumerate(dir, "logical", NoCb, FindFiles(f, dir))
    IN  {e.text : e \in {x \in Range(r.log) : x.ev = "cb"}}

\* what a remove of the path p does to the tree
RemoveEffect(p) ==
    LET node == Split(p)
        dels == Deletions'
    IN  /\ Len(dels) <= 1
        /\ NativeCalls("FindFirstFileExW")' = <<>>
        /\ Kind(fs, node) = "dir" /\ ParentIsDir(fs, node) =>
              /\ Len(dels) = 1 /\ dels[1].what = "RemoveDirectoryW"
              /\ IF HasChildren(fs, node)
                 THEN /\ result'.retval < 0
                      /\ fs' = fs
                 ELSE /\ result'.retval = 0
                      /\ fs' = [fs EXCEPT ![node] = "none"]
                      /\ node[Len(node)] \in DeliveredIn(fs, node)
                      /\ node[Len(node)] \notin DeliveredIn(fs', node)
        /\ Kind(fs, node) = "file" /\ ParentIsDir(fs, node) =>
              /\ Len(dels) = 1 /\ dels[1].what = "DeleteFileW"
              /\ result'.retval = 0
              /\ fs' = [fs EXCEPT ![node] = "none"]

\* C10: remove calls directory removal when the directory bit is set and file deletion
\* otherwise, once, and enumerates nothing; on a directory that has entries it returns
\* a failure and leaves the tree as it is; on a directory without entries it returns 0
\* and an enumeration of the parent no longer delivers the name.
C10_RemoveDoesNotRecurse ==
    [][\A p \in FsFullPaths :
          (call'.op = "remove" /\ call'.fullpath = p) => RemoveEffect(p)]_vars

C10_Witness ==
    /\ Done("remove")
    /\ Len(NativeCalls("RemoveDirectoryW")) = 1
    /\ NativeCalls("RemoveDirectoryW")[1].res = "ERROR_DIR_NOT_EMPTY"
    /\ result.retval = -1
    /\ Kind(fs, Split(call.fullpath)) = "dir"
    /\ HasChildren(fs, Split(call.fullpath))

====
